---------------------------- MODULE Spec2Model ----------------------------
(***************************************************************************)
(* project-bundler (main.go): one invocation of the command walks a        *)
(* project directory and concatenates the text files it accepts into one   *)
(* markdown document.  The module models main() step by step: flag         *)
(* parsing, configuration resolution, creation of the output file, the     *)
(* filepath.WalkDir traversal with its callback, the buffered writer, and   *)
(* the exit paths (normal return with deferred Flush, log.Fatalf).          *)
(*                                                                         *)
(* Strings that the program inspects character by character (file names,   *)
(* extensions, map keys) are sequences of one-character strings, so that   *)
(* filepath.Ext, the lexical sort of os.ReadDir and byte lengths are        *)
(* computed rather than assumed.  A path is the sequence of its cleaned    *)
(* components relative to the working directory (<<>> is ".").  File       *)
(* contents are summarised by their length, the offsets of their zero      *)
(* bytes and a label for the remaining bytes.                              *)
(***************************************************************************)
EXTENDS Integers, Sequences, FiniteSets, TLC

VARIABLES
    world,          \* the file system under the working directory (its nodes) and the output device's capacity
    args,           \* the command line: src, output, type, reportSkipped and the flags main does not define
    pc,             \* position in main(): "parse", "config", "create", "root", "walk", "done", "fatal"
    fatalMsg,       \* which log.Fatalf (or the flag package's usage error) ended the run; "" while running
    finalProjectType,
    ignoreDirs,     \* stringSet
    ignoreExts,     \* stringSet
    langMap,        \* merged extension -> language map
    skippedFiles,   \* reason -> sequence of paths
    todo,           \* WalkDir: the entries still to be passed to the callback, next first
    visited,        \* paths the callback has been called with, in call order
    opened,         \* paths that os.Open / os.ReadFile has been called on
    records,        \* the blocks handed to the buffered writer, in order
    stream,         \* summary of all bytes handed to the writer: [len, zeros]
    writer,         \* bufio.Writer: [n |-> bytes buffered, err |-> sticky error]
    outFile,        \* the output file on disk: [exists, len]; its bytes are the first len bytes of stream
    console,        \* what has been printed: [success, report]
    run,            \* number of the current invocation on this file system
    prev,           \* outcome of the previous invocation
    probe           \* result of the last isBinaryFile call made by the detector harness

vars == <<world, args, pc, fatalMsg, finalProjectType, ignoreDirs, ignoreExts, langMap,
          skippedFiles, todo, visited, opened, records, stream, writer, outFile,
          console, run, prev, probe>>

-----------------------------------------------------------------------------
(* Configuration section of main.go *)

(* baseLangMap: common language mappings for extensions. *)
baseLangMap ==
    <<".", "m", "d">> :> "markdown"
    @@ <<".", "s", "h">> :> "shell"
    @@ <<".", "j", "s", "o", "n">> :> "json"
    @@ <<".", "y", "m", "l">> :> "yaml"
    @@ <<".", "y", "a", "m", "l">> :> "yaml"
    @@ <<".", "t", "o", "m", "l">> :> "toml"
    @@ <<".", "t", "x", "t">> :> "text"
    @@ <<".", "g", "i", "t", "i", "g", "n", "o", "r", "e">> :> "text"
    @@ <<".", "p", "r", "o", "t", "o">> :> "protobuf"

(* filenameLangMap: well-known file names that lack extensions. *)
filenameLangMap ==
    <<"D", "o", "c", "k", "e", "r", "f", "i", "l", "e">> :> "dockerfile"
    @@ <<"M", "a", "k", "e", "f", "i", "l", "e">> :> "makefile"
    @@ <<"g", "o", ".", "m", "o", "d">> :> "go-mod"
    @@ <<"g", "o", ".", "s", "u", "m">> :> "text"
    @@ <<"L", "I", "C", "E", "N", "S", "E">> :> "text"
    @@ <<"R", "E", "A", "D", "M", "E">> :> "markdown"

(* projectConfigs["generic"]: dirs .git; exts .DS_Store .log .lock *)
Config_generic ==
    [IgnoreDirs |-> <<<<".", "g", "i", "t">>>>,
     IgnoreExts |-> <<<<".", "D", "S", "_", "S", "t", "o", "r", "e">>,
                    <<".", "l", "o", "g">>,
                    <<".", "l", "o", "c", "k">>>>,
     LangMap |-> <<>>]

(* projectConfigs["android"]: dirs .git .idea build .gradle gradle; exts .DS_Store .iml .jar .keystore .jks .apk .aab .so .png .jpg .jpeg .gif .webp *)
Config_android ==
    [IgnoreDirs |-> <<<<".", "g", "i", "t">>,
                    <<".", "i", "d", "e", "a">>,
                    <<"b", "u", "i", "l", "d">>,
                    <<".", "g", "r", "a", "d", "l", "e">>,
                    <<"g", "r", "a", "d", "l", "e">>>>,
     IgnoreExts |-> <<<<".", "D", "S", "_", "S", "t", "o", "r", "e">>,
                    <<".", "i", "m", "l">>,
                    <<".", "j", "a", "r">>,
                    <<".", "k", "e", "y", "s", "t", "o", "r", "e">>,
                    <<".", "j", "k", "s">>,
                    <<".", "a", "p", "k">>,
                    <<".", "a", "a", "b">>,
                    <<".", "s", "o">>,
                    <<".", "p", "n", "g">>,
                    <<".", "j", "p", "g">>,
                    <<".", "j", "p", "e", "g">>,
                    <<".", "g", "i", "f">>,
                    <<".", "w", "e", "b", "p">>>>,
     LangMap |-> (<<".", "j", "a", "v", "a">> :> "java"
                  @@ <<".", "k", "t">> :> "kotlin"
                  @@ <<".", "k", "t", "s">> :> "kotlin"
                  @@ <<".", "x", "m", "l">> :> "xml"
                  @@ <<".", "g", "r", "a", "d", "l", "e">> :> "groovy"
                  @@ <<".", "p", "r", "o">> :> "text")]

(* projectConfigs["go"]: dirs .git vendor build; exts .DS_Store .exe .so .a *)
Config_go ==
    [IgnoreDirs |-> <<<<".", "g", "i", "t">>,
                    <<"v", "e", "n", "d", "o", "r">>,
                    <<"b", "u", "i", "l", "d">>>>,
     IgnoreExts |-> <<<<".", "D", "S", "_", "S", "t", "o", "r", "e">>,
                    <<".", "e", "x", "e">>,
                    <<".", "s", "o">>,
                    <<".", "a">>>>,
     LangMap |-> (<<".", "g", "o">> :> "go")]

(* projectConfigs["rust"]: dirs .git target; exts .DS_Store .rlib .so .a .exe *)
Config_rust ==
    [IgnoreDirs |-> <<<<".", "g", "i", "t">>,
                    <<"t", "a", "r", "g", "e", "t">>>>,
     IgnoreExts |-> <<<<".", "D", "S", "_", "S", "t", "o", "r", "e">>,
                    <<".", "r", "l", "i", "b">>,
                    <<".", "s", "o">>,
                    <<".", "a">>,
                    <<".", "e", "x", "e">>>>,
     LangMap |-> (<<".", "r", "s">> :> "rust")]

(* projectConfigs["ios"]: dirs .git .idea Pods build DerivedData .swiftpm Carthage; exts .DS_Store .mobileprovision .app .ipa .car .xcassets .storyboardc .nib .png .jpg .jpeg *)
Config_ios ==
    [IgnoreDirs |-> <<<<".", "g", "i", "t">>,
                    <<".", "i", "d", "e", "a">>,
                    <<"P", "o", "d", "s">>,
                    <<"b", "u", "i", "l", "d">>,
                    <<"D", "e", "r", "i", "v", "e", "d", "D", "a", "t", "a">>,
                    <<".", "s", "w", "i", "f", "t", "p", "m">>,
                    <<"C", "a", "r", "t", "h", "a", "g", "e">>>>,
     IgnoreExts |-> <<<<".", "D", "S", "_", "S", "t", "o", "r", "e">>,
                    <<".", "m", "o", "b", "i", "l", "e", "p", "r", "o", "v", "i", "s", "i", "o", "n">>,
                    <<".", "a", "p", "p">>,
                    <<".", "i", "p", "a">>,
                    <<".", "c", "a", "r">>,
                    <<".", "x", "c", "a", "s", "s", "e", "t", "s">>,
                    <<".", "s", "t", "o", "r", "y", "b", "o", "a", "r", "d", "c">>,
                    <<".", "n", "i", "b">>,
                    <<".", "p", "n", "g">>,
                    <<".", "j", "p", "g">>,
                    <<".", "j", "p", "e", "g">>>>,
     LangMap |-> (<<".", "s", "w", "i", "f", "t">> :> "swift"
                  @@ <<".", "m">> :> "objectivec"
                  @@ <<".", "h">> :> "objectivec"
                  @@ <<".", "s", "t", "o", "r", "y", "b", "o", "a", "r", "d">> :> "xml"
                  @@ <<".", "x", "i", "b">> :> "xml"
                  @@ <<".", "p", "l", "i", "s", "t">> :> "xml")]

projectConfigs ==
    "generic" :> Config_generic
    @@ "android" :> Config_android
    @@ "go" :> Config_go
    @@ "rust" :> Config_rust
    @@ "ios" :> Config_ios

-----------------------------------------------------------------------------
(* Helper functions of main.go and the library calls it relies on *)

Min(a, b) == IF a < b THEN a ELSE b

Range(s) == {s[i] : i \in DOMAIN s}

(* newStringSet: the set of the items of a slice. *)
newStringSet(items) == Range(items)

(* stringSet.Contains *)
Contains(s, item) == item \in s

(* mergeMaps(a, b): keys of the later map overwrite those of the earlier. *)
mergeMaps(a, b) ==
    [k \in (DOMAIN a) \cup (DOMAIN b) |-> IF k \in DOMAIN b THEN b[k] ELSE a[k]]

(* filepath.Ext: the suffix beginning at the final dot of the name, "" if   *)
(* there is no dot (a name holds no path separator).                        *)
Ext(name) ==
    LET dots == {i \in 1..Len(name) : name[i] = "."}
    IN  IF dots = {} THEN <<>>
        ELSE SubSeq(name, CHOOSE i \in dots : \A j \in dots : j <= i, Len(name))

(* The characters that occur in names, in increasing byte value. *)
Alphabet ==
    <<".", "A", "B", "C", "D", "E", "F", "G", "H", "I", "J", "K", "L", "M",
      "N", "O", "P", "Q", "R", "S", "T", "U", "V", "W", "X", "Y", "Z", "_",
      "a", "b", "c", "d", "e", "f", "g", "h", "i", "j", "k", "l", "m",
      "n", "o", "p", "q", "r", "s", "t", "u", "v", "w", "x", "y", "z">>

(* The rank of each character in Alphabet. *)
CodeOf == [c \in Range(Alphabet) |-> CHOOSE i \in DOMAIN Alphabet : Alphabet[i] = c]

Code(c) == CodeOf[c]

(* Byte-wise string comparison a < b, as os.ReadDir's sort uses it. *)
Less(a, b) ==
    \E i \in 1..(Min(Len(a), Len(b)) + 1) :
        /\ \A j \in 1..(i - 1) : a[j] = b[j]
        /\ \/ i > Len(a) /\ i <= Len(b)
           \/ i <= Len(a) /\ i <= Len(b) /\ Code(a[i]) < Code(b[i])

RECURSIVE Insert(_, _)
(* x put into the sorted sequence s at its place. *)
Insert(x, s) ==
    IF s = <<>> THEN <<x>>
    ELSE IF Less(x, Head(s)) THEN <<x>> \o s
    ELSE <<Head(s)>> \o Insert(x, Tail(s))

RECURSIVE SortNames(_)
(* The names of a listing sorted by file name (os.ReadDir sorts what the    *)
(* directory yields; names within one directory are distinct).              *)
SortNames(s) ==
    IF s = <<>> THEN <<>> ELSE Insert(Head(s), SortNames(Tail(s)))

Reverse(s) == [i \in 1..Len(s) |-> s[Len(s) + 1 - i]]

(* filepath.Join(dir, name) on cleaned component sequences. *)
Join(dir, name) == Append(dir, name)

Parent(path) == SubSeq(path, 1, Len(path) - 1)

(* fs.DirEntry.Name(): the base name; the base name of "." is ".". *)
BaseName(path) == IF path = <<>> THEN <<".">> ELSE path[Len(path)]

IsPrefix(p, q) == Len(p) <= Len(q) /\ SubSeq(q, 1, Len(p)) = p

(* filepath.Rel(base, target) for two cleaned paths relative to the same    *)
(* directory: one ".." per component of base outside the common prefix,     *)
(* then the rest of target.  <<>> is ".".  Between two such paths Rel        *)
(* never fails.                                                             *)
Rel(base, target) ==
    LET common == CHOOSE n \in 0..Min(Len(base), Len(target)) :
                      /\ SubSeq(base, 1, n) = SubSeq(target, 1, n)
                      /\ \A k \in (n + 1)..Min(Len(base), Len(target)) :
                             SubSeq(base, 1, k) # SubSeq(target, 1, k)
    IN  [ok   |-> TRUE,
         path |-> [i \in 1..(Len(base) - common) |-> <<".", ".">>]
                  \o SubSeq(target, common + 1, Len(target))]

RECURSIVE NamesLen(_)
NamesLen(p) == IF p = <<>> THEN 0 ELSE Len(Head(p)) + NamesLen(Tail(p))

(* Number of bytes of a path printed with "/" between its components. *)
PathLen(p) == IF p = <<>> THEN 1 ELSE NamesLen(p) + Len(p) - 1

-----------------------------------------------------------------------------
(* The file systems the program is run on *)

NoContent == [data |-> "", len |-> 0, zeros |-> {}]

Dir(path) == [path |-> path, kind |-> "dir", perm |-> TRUE, badAt |-> -1, content |-> NoContent]

(* A directory whose enumeration fails (permission denied). *)
LockedDir(path) == [path |-> path, kind |-> "dir", perm |-> FALSE, badAt |-> -1, content |-> NoContent]

File(path, data, len, zeros) ==
    [path |-> path, kind |-> "file", perm |-> TRUE, badAt |-> -1,
     content |-> [data |-> data, len |-> len, zeros |-> zeros]]

(* A file that cannot be opened. *)
NoPermFile(path, data, len, zeros) ==
    [path |-> path, kind |-> "file", perm |-> FALSE, badAt |-> -1,
     content |-> [data |-> data, len |-> len, zeros |-> zeros]]

(* A file whose byte at offset badAt, and every read that covers it, fails. *)
DamagedFile(path, data, len, zeros, badAt) ==
    [path |-> path, kind |-> "file", perm |-> TRUE, badAt |-> badAt,
     content |-> [data |-> data, len |-> len, zeros |-> zeros]]

(* A Go project: go.mod, sources, vendor and .git, binaries, unreadable files, a nested build directory. *)
GoTree ==
    <<Dir(<<>>),  \* .
      File(<<<<"n", "o", "t", "e", "s", ".", "x", "y", "z">>>>, "notes", 40, {}),  \* notes.xyz
      File(<<<<"g", "o", ".", "m", "o", "d">>>>, "gomod", 30, {}),  \* go.mod
      Dir(<<<<"v", "e", "n", "d", "o", "r">>>>),  \* vendor
      File(<<<<"v", "e", "n", "d", "o", "r">>, <<"b", ".", "g", "o">>>>, "b", 60, {}),  \* vendor/b.go
      File(<<<<"a", ".", "g", "o">>>>, "a", 5000, {}),  \* a.go
      Dir(<<<<".", "g", "i", "t">>>>),  \* .git
      File(<<<<".", "g", "i", "t">>, <<"c", "o", "n", "f", "i", "g">>>>, "gitconfig", 20, {}),  \* .git/config
      File(<<<<"D", "o", "c", "k", "e", "r", "f", "i", "l", "e">>>>, "docker", 120, {}),  \* Dockerfile
      NoPermFile(<<<<"a", "p", "p", ".", "e", "x", "e">>>>, "exe", 900, {4}),  \* app.exe
      File(<<<<"l", "o", "g", "o", ".", "d", "a", "t">>>>, "logo", 50, {10}),  \* logo.dat
      File(<<<<"l", "a", "t", "e", ".", "d", "a", "t">>>>, "late", 2001, {2000}),  \* late.dat
      NoPermFile(<<<<"s", "e", "c", "r", "e", "t", ".", "t", "x", "t">>>>, "secret", 10, {}),  \* secret.txt
      DamagedFile(<<<<"d", "a", "m", "a", "g", "e", "d", ".", "m", "d">>>>, "damaged", 3000, {}, 1500),  \* damaged.md
      File(<<<<"e", "m", "p", "t", "y", ".", "t", "x", "t">>>>, "", 0, {}),  \* empty.txt
      Dir(<<<<"p", "k", "g">>>>),  \* pkg
      File(<<<<"p", "k", "g">>, <<"z", ".", "g", "o">>>>, "z", 70, {}),  \* pkg/z.go
      Dir(<<<<"p", "k", "g">>, <<"b", "u", "i", "l", "d">>>>),  \* pkg/build
      File(<<<<"p", "k", "g">>, <<"b", "u", "i", "l", "d">>, <<"g", "e", "n", ".", "g", "o">>>>, "gen", 80, {}),  \* pkg/build/gen.go
      File(<<<<".", "D", "S", "_", "S", "t", "o", "r", "e">>>>, "dsstore", 16, {0})>>  \* .DS_Store

(* GoTree with a pkg directory that cannot be enumerated. *)
GoTreeLocked ==
    [i \in DOMAIN GoTree |->
        IF GoTree[i].path = <<<<"p", "k", "g">>>> THEN LockedDir(GoTree[i].path) ELSE GoTree[i]]

(* A small tree with two landmark files (Cargo.toml and go.mod). *)
MixedTree ==
    <<Dir(<<>>),  \* .
      File(<<<<"l", "i", "b", ".", "r", "s">>>>, "lib", 90, {}),  \* lib.rs
      File(<<<<"C", "a", "r", "g", "o", ".", "t", "o", "m", "l">>>>, "cargo", 25, {}),  \* Cargo.toml
      File(<<<<"g", "o", ".", "m", "o", "d">>>>, "gomod", 30, {}),  \* go.mod
      Dir(<<<<"t", "a", "r", "g", "e", "t">>>>),  \* target
      File(<<<<"t", "a", "r", "g", "e", "t">>, <<"l", "i", "b", ".", "r", "l", "i", "b">>>>, "rlib", 500, {1}),  \* target/lib.rlib
      File(<<<<"R", "E", "A", "D", "M", "E">>>>, "readme", 35, {}),  \* README
      File(<<<<"i", "n", "d", "e", "x", ".", "m", "d">>>>, "index", 45, {}),  \* index.md
      File(<<<<"d", "a", "t", "a", ".", "j", "s", "o", "n">>>>, "data", 9000, {8500}),  \* data.json
      DamagedFile(<<<<"b", "r", "o", "k", "e", "n", ".", "l", "o", "g">>>>, "broken", 200, {}, 0)>>  \* broken.log

(* A tree with an .xcodeproj directory and a build.gradle. *)
IosTree ==
    <<Dir(<<>>),  \* .
      Dir(<<<<"A", "p", "p", ".", "x", "c", "o", "d", "e", "p", "r", "o", "j">>>>),  \* App.xcodeproj
      File(<<<<"A", "p", "p", ".", "x", "c", "o", "d", "e", "p", "r", "o", "j">>, <<"p", "r", "o", "j", "e", "c", "t", ".", "p", "b", "x", "p", "r", "o", "j">>>>, "pbx", 300, {}),  \* App.xcodeproj/project.pbxproj
      File(<<<<"M", "a", "i", "n", ".", "s", "w", "i", "f", "t">>>>, "main", 150, {}),  \* Main.swift
      Dir(<<<<"P", "o", "d", "s">>>>),  \* Pods
      File(<<<<"P", "o", "d", "s">>, <<"L", "i", "b", ".", "m">>>>, "lib", 40, {}),  \* Pods/Lib.m
      File(<<<<"I", "c", "o", "n", ".", "p", "n", "g">>>>, "icon", 4200, {3}),  \* Icon.png
      File(<<<<"b", "u", "i", "l", "d", ".", "g", "r", "a", "d", "l", "e">>>>, "gradle", 55, {}),  \* build.gradle
      Dir(<<<<"b", "u", "i", "l", "d">>>>),  \* build
      File(<<<<"b", "u", "i", "l", "d">>, <<"A", "p", "p", ".", "k", "t">>>>, "kt", 65, {})>>  \* build/App.kt

-----------------------------------------------------------------------------
(* The file system as the program sees it *)

(* isBinaryFile's buffer: make([]byte, 1024). *)
SniffLen == 1024

(* bufio.NewWriter(file): a buffer of bufio's default size. *)
BufSize == 4096

(* The first n bytes of a content. *)
Prefix(c, n) ==
    [data |-> c.data, len |-> Min(n, c.len), zeros |-> {z \in c.zeros : z < n}]

NoNode == [path |-> <<>>, kind |-> "none", perm |-> FALSE, badAt |-> -1, content |-> NoContent]

(* Lookup with the output file showing every byte handed to the writer,    *)
(* the buffered ones included.                                              *)
Lookup_Buffered(path) ==
    IF outFile.exists /\ path = args.output
    THEN [path |-> path, kind |-> "file", perm |-> TRUE, badAt |-> -1,
          content |-> [stream EXCEPT !.data = "bundle"]]
    ELSE IF \E i \in DOMAIN world.nodes : world.nodes[i].path = path
         THEN world.nodes[CHOOSE i \in DOMAIN world.nodes : world.nodes[i].path = path]
         ELSE [path |-> <<>>, kind |-> "none", perm |-> FALSE, badAt |-> -1, content |-> NoContent]

(* The directory entry at a path.  The output file, once created, holds     *)
(* the bytes that have reached it: the first outFile.len bytes of stream.   *)
Lookup(path) ==
    IF outFile.exists /\ path = args.output
    THEN [path |-> path, kind |-> "file", perm |-> TRUE, badAt |-> -1,
          content |-> Prefix([stream EXCEPT !.data = "bundle"], outFile.len)]
    ELSE IF \E i \in DOMAIN world.nodes : world.nodes[i].path = path
         THEN world.nodes[CHOOSE i \in DOMAIN world.nodes : world.nodes[i].path = path]
         ELSE NoNode

Exists(path) == Lookup(path).kind # "none"

(* The names a directory yields, in the order the file system yields them   *)
(* (the order of world.nodes; a newly created output file comes last).      *)
Listing(dir) ==
    LET IsChild(n) == n.path # <<>> /\ Parent(n.path) = dir
        kids == SelectSeq(world.nodes, IsChild)
        own  == [i \in 1..Len(kids) |-> BaseName(kids[i].path)]
    IN  IF /\ outFile.exists
           /\ args.output # <<>>
           /\ Parent(args.output) = dir
           /\ \A i \in DOMAIN own : own[i] # BaseName(args.output)
        THEN Append(own, BaseName(args.output))
        ELSE own

(* The enumeration order of a directory is the file system's own and may    *)
(* differ from one call to the next; two orders stand for that here.        *)
NativeOrders(dir) == {Listing(dir), Reverse(Listing(dir))}

(* ReadDir without its sort. *)
ReadDir_Unsorted(raw) == raw

(* os.ReadDir(dir) over one enumeration: the entries sorted by file name.   *)
ReadDir(raw) == SortNames(raw)

(* isBinaryFile searching the whole file instead of its first SniffLen      *)
(* bytes.                                                                   *)
isBinaryFile_WholeFile(path) ==
    LET f == Lookup(path)
    IN  IF f.kind = "none" \/ ~f.perm
        THEN [bin |-> FALSE, err |-> TRUE]
        ELSE IF f.badAt >= 0 /\ f.badAt < f.content.len
        THEN [bin |-> FALSE, err |-> TRUE]
        ELSE [bin |-> f.content.zeros # {}, err |-> FALSE]

(* isBinaryFile(path): open, one Read of at most SniffLen bytes, search the *)
(* bytes read for a zero byte.  err stands for a non-nil error result.      *)
isBinaryFile(path) ==
    LET f == Lookup(path)
    IN  IF f.kind = "none" \/ ~f.perm
        THEN [bin |-> FALSE, err |-> TRUE]                      \* os.Open failed
        ELSE LET n         == Min(SniffLen, f.content.len)      \* n, err := file.Read(buffer)
                 readErr   == f.badAt >= 0 /\ f.badAt < n       \* err != nil && err != io.EOF
                 readBytes == Prefix(f.content, n)              \* buffer[:n]
             IN  IF readErr
                 THEN [bin |-> FALSE, err |-> TRUE]
                 ELSE [bin |-> readBytes.zeros # {}, err |-> FALSE]

(* os.ReadFile(path) *)
ReadFile(path) ==
    LET f == Lookup(path)
    IN  IF f.kind = "none" \/ ~f.perm \/ (f.badAt >= 0 /\ f.badAt < f.content.len)
        THEN [ok |-> FALSE, content |-> NoContent]
        ELSE [ok |-> TRUE, content |-> f.content]

-----------------------------------------------------------------------------
(* The buffered writer over the output file.                                *)
(* A sink state is [n |-> bytes buffered, err |-> sticky error,             *)
(* flen |-> bytes in the file].                                             *)

(* file.Write of k bytes: the device takes bytes up to its capacity. *)
FileWrite(flen, k) ==
    IF flen + k <= world.capacity
    THEN [len |-> flen + k, written |-> k, ok |-> TRUE]
    ELSE [len |-> world.capacity, written |-> world.capacity - flen, ok |-> FALSE]

(* bufio.Writer.Flush *)
Flush(s) ==
    IF s.err \/ s.n = 0 THEN s
    ELSE LET r == FileWrite(s.flen, s.n)
         IN  [n |-> s.n - r.written, err |-> ~r.ok, flen |-> r.len]

RECURSIVE BufWrite(_, _)
(* bufio.Writer.Write / WriteString of k bytes: while the bytes do not fit, *)
(* write them straight to the file if the buffer is empty, else fill the    *)
(* buffer and flush it; then buffer the rest.  The call returns an error    *)
(* exactly when the resulting state has err set.                            *)
BufWrite(s, k) ==
    IF k > BufSize - s.n /\ ~s.err
    THEN IF s.n = 0
         THEN LET r == FileWrite(s.flen, k)
              IN  BufWrite([n |-> 0, err |-> ~r.ok, flen |-> r.len], k - r.written)
         ELSE BufWrite(Flush([s EXCEPT !.n = BufSize]), k - (BufSize - s.n))
    ELSE IF s.err THEN s
         ELSE [s EXCEPT !.n = s.n + k]

(* The three pieces of a block: the header "File: /<path>", newline, three *)
(* backquotes, <lang>, newline; the content; the trailer newline, three     *)
(* backquotes, newline, newline.  LF and BQ stand for one byte each.        *)
HeaderLen(relativePath, lang) ==
    Len(<<"F", "i", "l", "e", ":", " ", "/">>) + PathLen(relativePath)
      + Len(<<"LF", "BQ", "BQ", "BQ">>) + Len(lang) + Len(<<"LF">>)

TrailerLen == Len(<<"LF", "BQ", "BQ", "BQ", "LF", "LF">>)

-----------------------------------------------------------------------------
(* The command lines the program is run with *)

BundleMd == <<"b", "u", "n", "d", "l", "e", ".", "m", "d">>

(* Working directory, -src and -output of the runs explored.               *)
Scenarios ==
    { [nodes |-> GoTree,       src |-> <<>>, output |-> <<BundleMd>>],                        \* the defaults: -src . -output bundle.md
      [nodes |-> GoTree,       src |-> <<>>, output |-> <<<<"o", "u", "t">>, BundleMd>>],       \* -output out/bundle.md, no directory out
      [nodes |-> GoTree,       src |-> <<>>, output |-> <<<<"v", "e", "n", "d", "o", "r">>, BundleMd>>],  \* -output vendor/bundle.md
      [nodes |-> GoTree,       src |-> <<<<"v", "e", "n", "d", "o", "r">>>>, output |-> <<BundleMd>>],    \* -src vendor
      [nodes |-> GoTree,       src |-> <<<<"p", "k", "g">>>>, output |-> <<BundleMd>>],          \* -src pkg
      [nodes |-> GoTree,       src |-> <<<<"m", "i", "s", "s", "i", "n", "g">>>>, output |-> <<BundleMd>>],  \* -src missing
      [nodes |-> GoTree,       src |-> <<<<"g", "o", ".", "m", "o", "d">>>>, output |-> <<BundleMd>>],    \* -src go.mod (a file)
      [nodes |-> GoTreeLocked, src |-> <<>>, output |-> <<BundleMd>>],
      [nodes |-> MixedTree,    src |-> <<>>, output |-> <<BundleMd>>],
      [nodes |-> IosTree,      src |-> <<>>, output |-> <<BundleMd>>] }

(* -type values: the default, the presets, and a name that is no preset. *)
TypeArgs == {"auto", "generic", "android", "go", "rust", "ios", "python"}

(* Bytes the output device accepts before writes fail. *)
Capacities == {3000, 4096, 1000000}

(* The flags of the command line besides -src, -output and -type:          *)
(* -report-skipped, and the README's -ignore-dirs and -ignore-exts.         *)
NoList == [given |-> FALSE, items |-> <<>>]

FlagSets ==
    { [reportSkipped |-> FALSE, ignoreDirs |-> NoList, ignoreExts |-> NoList],
      [reportSkipped |-> TRUE,  ignoreDirs |-> NoList, ignoreExts |-> NoList],
      [reportSkipped |-> FALSE, ignoreExts |-> NoList,
       ignoreDirs |-> [given |-> TRUE,                       \* -ignore-dirs=".git,vendor,build,testdata"
                       items |-> << <<".", "g", "i", "t">>, <<"v", "e", "n", "d", "o", "r">>,
                                    <<"b", "u", "i", "l", "d">>, <<"t", "e", "s", "t", "d", "a", "t", "a">> >>]],
      [reportSkipped |-> FALSE, ignoreDirs |-> NoList,
       ignoreExts |-> [given |-> TRUE,                       \* -ignore-exts=".tmp,.exe"
                       items |-> << <<".", "t", "m", "p">>, <<".", "e", "x", "e">> >>]] }

-----------------------------------------------------------------------------
(* main() *)

(* Number of invocations explored on one file system. *)
MaxRuns == 2

(* detectProjectType's landmarkFiles. *)
landmarkFiles ==
    <<"g", "o", ".", "m", "o", "d">> :> "go"
    @@ <<"C", "a", "r", "g", "o", ".", "t", "o", "m", "l">> :> "rust"
    @@ <<"b", "u", "i", "l", "d", ".", "g", "r", "a", "d", "l", "e">> :> "android"
    @@ <<"P", "a", "c", "k", "a", "g", "e", ".", "s", "w", "i", "f", "t">> :> "ios"
    @@ <<"P", "o", "d", "f", "i", "l", "e">> :> "ios"

HasSuffix(name, suffix) ==
    Len(name) >= Len(suffix) /\ SubSeq(name, Len(name) - Len(suffix) + 1, Len(name)) = suffix

(* filepath.Glob(srcDir/*.xcodeproj) has a match; Glob ignores I/O errors. *)
GlobXcodeproj(srcDir) ==
    /\ Lookup(srcDir).kind = "dir"
    /\ Lookup(srcDir).perm
    /\ \E i \in DOMAIN Listing(srcDir) :
           HasSuffix(Listing(srcDir)[i], <<".", "x", "c", "o", "d", "e", "p", "r", "o", "j">>)

(* detectProjectType(srcDir): the values it can return.  The landmarks are  *)
(* tried in the iteration order of a Go map, which is not fixed, and the    *)
(* first one that exists decides.                                           *)
detectProjectType(srcDir) ==
    LET found == {l \in DOMAIN landmarkFiles : Exists(Join(srcDir, l))}
    IN  IF found # {} THEN {landmarkFiles[l] : l \in found}
        ELSE IF GlobXcodeproj(srcDir) THEN {"ios"}
        ELSE {"generic"}

(* The flags main defines before flag.Parse(). *)
DefinedFlags == {"src", "output", "type", "report-skipped"}

(* The flags present on the command line. *)
SuppliedFlags ==
    {"src", "output", "type"}
      \cup (IF args.reportSkipped THEN {"report-skipped"} ELSE {})
      \cup (IF args.ignoreDirs.given THEN {"ignore-dirs"} ELSE {})
      \cup (IF args.ignoreExts.given THEN {"ignore-exts"} ELSE {})

Sink == [n |-> writer.n, err |-> writer.err, flen |-> outFile.len]

Ledger(reason) == IF reason \in DOMAIN skippedFiles THEN skippedFiles[reason] ELSE <<>>

(* skippedFiles[reason] = append(skippedFiles[reason], path) *)
Skip(reason, path) ==
    IF reason \in DOMAIN skippedFiles
    THEN [skippedFiles EXCEPT ![reason] = Append(@, path)]
    ELSE skippedFiles @@ (reason :> <<path>>)

(* The callback's test on a directory entry: ignoreDirs.Contains(d.Name()) *)
FilterDir(path) == Contains(ignoreDirs, BaseName(path))

(* FilterFile with the binary detection ahead of the extension check. *)
FilterFile_SniffFirst(path, name) ==
    LET ext == Ext(name)
        b   == isBinaryFile(path)
    IN  IF b.err
        THEN [reason |-> "File Read Error", opens |-> TRUE, content |-> NoContent]
        ELSE IF b.bin
        THEN [reason |-> "Detected Binary Content", opens |-> TRUE, content |-> NoContent]
        ELSE IF Contains(ignoreExts, ext) \/ Contains(ignoreExts, name)
        THEN [reason |-> "Ignored Extension/File", opens |-> TRUE, content |-> NoContent]
        ELSE LET c == ReadFile(path)
             IN  IF ~c.ok
                 THEN [reason |-> "File Read Error", opens |-> TRUE, content |-> NoContent]
                 ELSE [reason |-> "", opens |-> TRUE, content |-> c.content]

(* FilterFile with the error of os.ReadFile dropped: the block is written   *)
(* with whatever was read.                                                  *)
FilterFile_IgnoreReadError(path, name) ==
    LET ext == Ext(name)
    IN  IF Contains(ignoreExts, ext) \/ Contains(ignoreExts, name)
        THEN [reason |-> "Ignored Extension/File", opens |-> FALSE, content |-> NoContent]
        ELSE LET b == isBinaryFile(path)
             IN  IF b.err
                 THEN [reason |-> "File Read Error", opens |-> TRUE, content |-> NoContent]
                 ELSE IF b.bin
                 THEN [reason |-> "Detected Binary Content", opens |-> TRUE, content |-> NoContent]
                 ELSE [reason |-> "", opens |-> TRUE, content |-> ReadFile(path).content]

(* The callback's checks on a file, in order: extension or full name,       *)
(* binary detection, full read.  reason "" means the file is bundled;       *)
(* opens is whether the file was opened at all.                             *)
FilterFile(path, name) ==
    LET ext == Ext(name)
    IN  IF Contains(ignoreExts, ext) \/ Contains(ignoreExts, name)
        THEN [reason |-> "Ignored Extension/File", opens |-> FALSE, content |-> NoContent]
        ELSE LET b == isBinaryFile(path)
             IN  IF b.err
                 THEN [reason |-> "File Read Error", opens |-> TRUE, content |-> NoContent]
                 ELSE IF b.bin
                 THEN [reason |-> "Detected Binary Content", opens |-> TRUE, content |-> NoContent]
                 ELSE LET c == ReadFile(path)
                      IN  IF ~c.ok
                          THEN [reason |-> "File Read Error", opens |-> TRUE, content |-> NoContent]
                          ELSE [reason |-> "", opens |-> TRUE, content |-> c.content]

(* Language without the lookup by full file name. *)
Language_NoFilename(name) ==
    LET ext == Ext(name)
    IN  IF ext \in DOMAIN langMap THEN langMap[ext] ELSE "text"

(* The language of a bundled file: by extension, then by full file name,    *)
(* then "text".                                                             *)
Language(name) ==
    LET ext == Ext(name)
    IN  IF ext \in DOMAIN langMap THEN langMap[ext]
        ELSE IF name \in DOMAIN filenameLangMap THEN filenameLangMap[name]
        ELSE "text"

(* relativePath left as the path the walk passed in. *)
RelativePath_Full(path) == path

(* relativePath: filepath.Rel(srcDir, path), the path itself on error. *)
RelativePath(path) ==
    LET r == Rel(args.src, path) IN IF r.ok THEN r.path ELSE path

(* The three writes of a block; the first that fails ends the callback. *)
WriteBlock(s, relativePath, lang, content) ==
    LET s1 == BufWrite(s, HeaderLen(relativePath, lang))
    IN  IF s1.err THEN s1
        ELSE LET s2 == BufWrite(s1, content.len)
             IN  IF s2.err THEN s2
                 ELSE BufWrite(s2, TrailerLen)

(* The bytes handed to the writer, with one more block. *)
StreamWith(relativePath, lang, content) ==
    LET at == stream.len + HeaderLen(relativePath, lang)
    IN  [data  |-> stream.data,
         len   |-> at + content.len + TrailerLen,
         zeros |-> stream.zeros \cup {at + z : z \in content.zeros}]

NoStream == [data |-> "bundle", len |-> 0, zeros |-> {}]

NoPrev == [valid |-> FALSE, pc |-> "", fatalMsg |-> "", finalProjectType |-> "",
           ignoreDirs |-> {}, ignoreExts |-> {}, records |-> <<>>]

NoProbe == [called |-> FALSE, bin |-> FALSE, err |-> FALSE]

(* The state in which main() starts. *)
ProcessStart ==
    /\ pc = "parse"
    /\ fatalMsg = ""
    /\ finalProjectType = ""
    /\ ignoreDirs = {}
    /\ ignoreExts = {}
    /\ langMap = <<>>
    /\ skippedFiles = <<>>
    /\ todo = <<>>
    /\ visited = <<>>
    /\ opened = {}
    /\ records = <<>>
    /\ writer = [n |-> 0, err |-> FALSE]
    /\ console = [success |-> FALSE, report |-> FALSE]

Init ==
    /\ \E sc \in Scenarios, t \in TypeArgs, f \in FlagSets, cap \in Capacities :
          /\ world = [nodes |-> sc.nodes, capacity |-> cap]
          /\ args = [src |-> sc.src, output |-> sc.output, type |-> t,
                     reportSkipped |-> f.reportSkipped,
                     ignoreDirs |-> f.ignoreDirs, ignoreExts |-> f.ignoreExts]
    /\ ProcessStart
    /\ stream = NoStream
    /\ outFile = [exists |-> FALSE, len |-> 0]
    /\ run = 1
    /\ prev = NoPrev
    /\ probe = NoProbe

(* log.Fatalf (or the flag package's exit): the process ends at once;       *)
(* deferred calls do not run.                                               *)
Fatal(msg) ==
    /\ pc' = "fatal"
    /\ fatalMsg' = msg

(* 1. flag.Parse(): a flag that was not defined ends the run with a usage   *)
(* error.                                                                   *)
ParseFlags ==
    /\ pc = "parse"
    /\ IF SuppliedFlags \subseteq DefinedFlags
       THEN pc' = "config" /\ fatalMsg' = fatalMsg
       ELSE Fatal("flag provided but not defined")
    /\ UNCHANGED <<world, args, finalProjectType, ignoreDirs, ignoreExts, langMap,
                   skippedFiles, todo, visited, opened, records, stream, writer,
                   outFile, console, run, prev, probe>>

(* 2. Determine the project type and load its configuration. *)
LoadConfig ==
    /\ pc = "config"
    /\ \E t \in (IF args.type = "auto" THEN detectProjectType(args.src) ELSE {args.type}) :
          /\ finalProjectType' = t
          /\ IF t \in DOMAIN projectConfigs
             THEN /\ ignoreDirs' = newStringSet(projectConfigs[t].IgnoreDirs)
                  /\ ignoreExts' = newStringSet(projectConfigs[t].IgnoreExts)
                  /\ langMap' = mergeMaps(baseLangMap, projectConfigs[t].LangMap)
                  /\ pc' = "create"
                  /\ fatalMsg' = fatalMsg
             ELSE /\ Fatal("Invalid project type")
                  /\ UNCHANGED <<ignoreDirs, ignoreExts, langMap>>
    /\ UNCHANGED <<world, args, skippedFiles, todo, visited, opened, records, stream,
                   writer, outFile, console, run, prev, probe>>

(* os.Create(path) succeeds: the parent is a directory and the path is not  *)
(* one.                                                                     *)
CanCreate(path) ==
    /\ path # <<>>
    /\ Lookup(Parent(path)).kind = "dir"
    /\ Lookup(path).kind # "dir"

(* 3. os.Create(outputFile) and bufio.NewWriter(file). *)
CreateOutput ==
    /\ pc = "create"
    /\ IF CanCreate(args.output)
       THEN /\ outFile' = [exists |-> TRUE, len |-> 0]
            /\ stream' = NoStream
            /\ writer' = [n |-> 0, err |-> FALSE]
            /\ pc' = "root"
            /\ fatalMsg' = fatalMsg
       ELSE /\ Fatal("Failed to create output file")
            /\ UNCHANGED <<outFile, stream, writer>>
    /\ UNCHANGED <<world, args, finalProjectType, ignoreDirs, ignoreExts, langMap,
                   skippedFiles, todo, visited, opened, records, console, run, prev, probe>>

(* 4. filepath.WalkDir(srcDir, ...): os.Lstat of the root.  If it fails    *)
(* the callback is called with the error and returns it.                    *)
WalkRoot ==
    /\ pc = "root"
    /\ IF Exists(args.src)
       THEN /\ todo' = <<args.src>>
            /\ pc' = "walk"
            /\ UNCHANGED <<fatalMsg, visited>>
       ELSE /\ visited' = Append(visited, args.src)
            /\ Fatal("Error during directory walk")
            /\ UNCHANGED todo
    /\ UNCHANGED <<world, args, finalProjectType, ignoreDirs, ignoreExts, langMap,
                   skippedFiles, opened, records, stream, writer, outFile, console,
                   run, prev, probe>>

(* The callback returning nil where it returns filepath.SkipDir: the       *)
(* directory is recorded as skipped and then descended into.                *)
AfterSkipDir_Descend ==
    LET dirs == ReadDir(Listing(Head(todo)))
    IN  [i \in 1..Len(dirs) |-> Join(Head(todo), dirs[i])] \o Tail(todo)

(* What is left to walk after the callback returned filepath.SkipDir for    *)
(* the directory at the head of todo: walkDir returns without reading it.   *)
AfterSkipDir == Tail(todo)

(* The callback on a directory, then walkDir's os.ReadDir of it. *)
VisitDir ==
    /\ pc = "walk"
    /\ todo # <<>>
    /\ LET path == Head(todo)
           d    == Lookup(path)
       IN  /\ d.kind = "dir"
           /\ visited' = Append(visited, path)
           /\ IF FilterDir(path)
              THEN /\ skippedFiles' = Skip("Ignored Directory", path)
                   /\ todo' = AfterSkipDir                      \* return filepath.SkipDir
                   /\ UNCHANGED <<pc, fatalMsg>>
              ELSE IF ~d.perm
              THEN /\ Fatal("Error during directory walk")     \* second call, err != nil
                   /\ UNCHANGED <<skippedFiles, todo>>
              ELSE /\ \E raw \in NativeOrders(path) :
                         LET dirs == ReadDir(raw)
                         IN  todo' = [i \in 1..Len(dirs) |-> Join(path, dirs[i])] \o Tail(todo)
                   /\ UNCHANGED <<skippedFiles, pc, fatalMsg>>
    /\ UNCHANGED <<world, args, finalProjectType, ignoreDirs, ignoreExts, langMap,
                   opened, records, stream, writer, outFile, console, run, prev, probe>>

(* The callback on a file. *)
VisitFile ==
    /\ pc = "walk"
    /\ todo # <<>>
    /\ LET path == Head(todo)
           d    == Lookup(path)
           name == BaseName(path)
           f    == FilterFile(path, name)
           lang == Language(name)
           rel  == RelativePath(path)
           s    == WriteBlock(Sink, rel, lang, f.content)
       IN  /\ d.kind = "file"
           /\ visited' = Append(visited, path)
           /\ opened' = IF f.opens THEN opened \cup {path} ELSE opened
           /\ todo' = Tail(todo)
           /\ IF f.reason # ""
              THEN /\ skippedFiles' = Skip(f.reason, path)
                   /\ UNCHANGED <<records, stream, writer, outFile, pc, fatalMsg>>
              ELSE /\ writer' = [n |-> s.n, err |-> s.err]
                   /\ outFile' = [outFile EXCEPT !.len = s.flen]
                   /\ stream' = StreamWith(rel, lang, f.content)
                   /\ UNCHANGED skippedFiles
                   /\ IF s.err
                      THEN /\ Fatal("Error during directory walk")   \* return err
                           /\ UNCHANGED records
                      ELSE /\ records' = Append(records,
                                  [relativePath |-> rel, lang |-> lang, content |-> f.content])
                           /\ UNCHANGED <<pc, fatalMsg>>
    /\ UNCHANGED <<world, args, finalProjectType, ignoreDirs, ignoreExts, langMap,
                   console, run, prev, probe>>

(* 5. WalkDir returned nil: the optional report, the success message, then  *)
(* the deferred writer.Flush() (its error is dropped) and file.Close().     *)
Finish ==
    /\ pc = "walk"
    /\ todo = <<>>
    /\ console' = [success |-> TRUE, report |-> args.reportSkipped]
    /\ LET s == Flush(Sink)
       IN  /\ writer' = [n |-> s.n, err |-> s.err]
           /\ outFile' = [outFile EXCEPT !.len = s.flen]
    /\ pc' = "done"
    /\ UNCHANGED <<world, args, fatalMsg, finalProjectType, ignoreDirs, ignoreExts, langMap,
                   skippedFiles, todo, visited, opened, records, stream, run, prev, probe>>

(* The command is run again, same command line, same file system (the       *)
(* output file of the previous run is still there).                         *)
Rerun ==
    /\ pc \in {"done", "fatal"}
    /\ run < MaxRuns
    /\ run' = run + 1
    /\ prev' = [valid |-> TRUE, pc |-> pc, fatalMsg |-> fatalMsg,
                finalProjectType |-> finalProjectType,
                ignoreDirs |-> ignoreDirs, ignoreExts |-> ignoreExts,
                records |-> records]
    /\ pc' = "parse"
    /\ fatalMsg' = ""
    /\ finalProjectType' = ""
    /\ ignoreDirs' = {}
    /\ ignoreExts' = {}
    /\ langMap' = <<>>
    /\ skippedFiles' = <<>>
    /\ todo' = <<>>
    /\ visited' = <<>>
    /\ opened' = {}
    /\ records' = <<>>
    /\ writer' = [n |-> 0, err |-> FALSE]
    /\ console' = [success |-> FALSE, report |-> FALSE]
    /\ UNCHANGED <<world, args, stream, outFile, probe>>

Next ==
    \/ ParseFlags
    \/ LoadConfig
    \/ CreateOutput
    \/ WalkRoot
    \/ VisitDir
    \/ VisitFile
    \/ Finish
    \/ Rerun

Spec == Init /\ [][Next]_vars

-----------------------------------------------------------------------------
(* The binary detector on its own: isBinaryFile applied to one file whose   *)
(* length, zero bytes, permission and damage are drawn from bounded sets.   *)

(* How far around 0 and around SniffLen the lengths and offsets range. *)
Slack == 1

(* The largest number of zero bytes in a drawn file. *)
MaxZeros == 2

ProbeOffsets == (0..Slack) \cup ((SniffLen - Slack)..(SniffLen + Slack)) \cup {2000}

ProbeLens == (0..Slack) \cup ((SniffLen - Slack)..(SniffLen + Slack)) \cup {2001}

ProbePath == << <<"p", "r", "o", "b", "e">> >>

ProbeFile == world.nodes[2]

InitDetector ==
    /\ \E len \in ProbeLens, zeros \in SUBSET ProbeOffsets,
          perm \in BOOLEAN, badAt \in {-1, 0, SniffLen + Slack} :
          /\ Cardinality(zeros) <= MaxZeros
          /\ \A z \in zeros : z < len
          /\ badAt < len
          /\ world = [nodes |-> <<Dir(<<>>),
                                  [path |-> ProbePath, kind |-> "file", perm |-> perm,
                                   badAt |-> badAt,
                                   content |-> [data |-> "probe", len |-> len, zeros |-> zeros]]>>,
                      capacity |-> 0]
    /\ args = [src |-> <<>>, output |-> <<BundleMd>>, type |-> "auto",
               reportSkipped |-> FALSE, ignoreDirs |-> NoList, ignoreExts |-> NoList]
    /\ ProcessStart
    /\ stream = NoStream
    /\ outFile = [exists |-> FALSE, len |-> 0]
    /\ run = 1
    /\ prev = NoPrev
    /\ probe = NoProbe

(* isBinary, err := isBinaryFile(path) *)
Sniff ==
    /\ ~probe.called
    /\ LET r == isBinaryFile(ProbePath)
       IN  probe' = [called |-> TRUE, bin |-> r.bin, err |-> r.err]
    /\ UNCHANGED <<world, args, pc, fatalMsg, finalProjectType, ignoreDirs, ignoreExts,
                   langMap, skippedFiles, todo, visited, opened, records, stream, writer,
                   outFile, console, run, prev>>

NextDetector == Sniff

SpecDetector == InitDetector /\ [][NextDetector]_vars

-----------------------------------------------------------------------------
(* Properties *)

(* q lies strictly beneath the directory p. *)
Beneath(p, q) == IsPrefix(p, q) /\ p # q

LedgerPaths == UNION {Range(skippedFiles[r]) : r \in DOMAIN skippedFiles}

(* The path of a block, as the walk named the file. *)
RecordPath(r) == args.src \o r.relativePath

RecordPaths == {RecordPath(records[k]) : k \in DOMAIN records}

(* The extension as the specification words it: the part of the name from  *)
(* its last dot on, the dot included; empty when the name has no dot.       *)
LastDotSuffix(name) ==
    IF \E k \in DOMAIN name : name[k] = "."
    THEN LET k == CHOOSE i \in DOMAIN name :
                      name[i] = "." /\ \A j \in (i + 1)..Len(name) : name[j] # "."
         IN  SubSeq(name, k, Len(name))
    ELSE <<>>

NameIgnored(name) == LastDotSuffix(name) \in ignoreExts \/ name \in ignoreExts

(* A zero byte among the first 1024 bytes. *)
ZeroInFirstKilobyte(content) == \E z \in content.zeros : z < 1024

FullyReadable(node) == node.perm /\ ~(node.badAt >= 0 /\ node.badAt < node.content.len)

(* The binary check or the full read of the file fails: it cannot be       *)
(* opened, or a damaged byte lies in the first 1024 bytes, or the file      *)
(* passes the binary check and a damaged byte lies anywhere in it.          *)
ReadFails(node) ==
    \/ ~node.perm
    \/ node.badAt >= 0 /\ node.badAt < node.content.len /\ node.badAt < 1024
    \/ node.badAt >= 0 /\ node.badAt < node.content.len /\ ~ZeroInFirstKilobyte(node.content)

(* The file at path is one the specification accepts. *)
AcceptedFile(path) ==
    LET node == Lookup(path)
    IN  /\ node.kind = "file"
        /\ ~NameIgnored(BaseName(path))
        /\ FullyReadable(node)
        /\ ~ZeroInFirstKilobyte(node.content)

(* The language tag by the stated precedence: the preset's own entry for   *)
(* the extension, else the base map's, else the entry for the file name,    *)
(* else "text".                                                             *)
TagOf(name) ==
    LET ext      == LastDotSuffix(name)
        override == projectConfigs[finalProjectType].LangMap
    IN  IF ext \in DOMAIN override THEN override[ext]
        ELSE IF ext \in DOMAIN baseLangMap THEN baseLangMap[ext]
        ELSE IF name \in DOMAIN filenameLangMap THEN filenameLangMap[name]
        ELSE "text"

RECURSIVE AcceptedOf(_)
(* The accepted files among the visited entries, in visitation order. *)
AcceptedOf(v) ==
    IF v = <<>> THEN <<>>
    ELSE (IF AcceptedFile(Head(v)) THEN <<Head(v)>> ELSE <<>>) \o AcceptedOf(Tail(v))

RECURSIVE BlockEnd(_)
(* The offset in the document just after block k. *)
BlockEnd(k) ==
    IF k = 0 THEN 0
    ELSE BlockEnd(k - 1) + HeaderLen(records[k].relativePath, records[k].lang)
           + records[k].content.len + TrailerLen

(* The blocks that are whole in the output file. *)
Delivered == {k \in DOMAIN records : BlockEnd(k) <= outFile.len}

(* The run was ended by a failure to enumerate a directory: the entry the  *)
(* callback was last called with is a missing root or a directory that      *)
(* cannot be read.                                                          *)
EnumerationError ==
    /\ pc = "fatal"
    /\ fatalMsg = "Error during directory walk"
    /\ visited # <<>>
    /\ LET d == Lookup(visited[Len(visited)])
       IN  d.kind = "none" \/ (d.kind = "dir" /\ ~d.perm)

(* The run was ended before the walk began: an undefined flag, an unknown  *)
(* project type, or an output path that cannot be created.                  *)
StartupError ==
    /\ pc = "fatal"
    /\ fatalMsg \in {"flag provided but not defined", "Invalid project type",
                     "Failed to create output file"}

(* The run was ended by a failed write of an accepted file's block. *)
WriteError ==
    /\ pc = "fatal"
    /\ fatalMsg = "Error during directory walk"
    /\ writer.err
    /\ visited # <<>>
    /\ AcceptedFile(visited[Len(visited)])

(* C1: every visited directory whose bare name is in ignoreDirs (the root  *)
(* included) is in the ledger under "Ignored Directory", and nothing        *)
(* beneath it is visited, opened, bundled, listed in the ledger or waiting  *)
(* to be visited.                                                           *)
C1_PrunedSubtree ==
    \A i \in DOMAIN visited :
        LET p == visited[i]
        IN  (Lookup(p).kind = "dir" /\ BaseName(p) \in ignoreDirs) =>
                /\ p \in Range(Ledger("Ignored Directory"))
                /\ \A j \in DOMAIN visited : ~Beneath(p, visited[j])
                /\ \A j \in DOMAIN todo : ~Beneath(p, todo[j])
                /\ \A q \in opened \cup RecordPaths \cup LedgerPaths : ~Beneath(p, q)

(* A finished run that pruned the nested directory pkg/build, which holds a *)
(* file, and kept walking.                                                  *)
C1_Witness ==
    /\ pc = "done"
    /\ << <<"p", "k", "g">>, <<"b", "u", "i", "l", "d">> >> \in Range(Ledger("Ignored Directory"))
    /\ \E i \in DOMAIN world.nodes :
           Beneath(<< <<"p", "k", "g">>, <<"b", "u", "i", "l", "d">> >>, world.nodes[i].path)
    /\ Len(records) > 0

(* C2: every visited file whose extension or full name is in ignoreExts is *)
(* in the ledger under "Ignored Extension/File" and was never opened.       *)
C2_IgnoredNeverOpened ==
    \A i \in DOMAIN visited :
        LET p == visited[i]
        IN  (Lookup(p).kind = "file" /\ NameIgnored(BaseName(p))) =>
                /\ p \in Range(Ledger("Ignored Extension/File"))
                /\ p \notin opened
                /\ p \notin RecordPaths

(* A finished run that skipped app.exe by its extension while it opened     *)
(* other files.                                                             *)
C2_Witness ==
    /\ pc = "done"
    /\ << <<"a", "p", "p", ".", "e", "x", "e">> >> \in Range(Ledger("Ignored Extension/File"))
    /\ << <<"a", "p", "p", ".", "e", "x", "e">> >> \notin opened
    /\ opened # {}

(* C3: on a readable file isBinaryFile returns no error, and returns true  *)
(* exactly when a zero byte lies among the first 1024 bytes; so a file      *)
(* whose only zero byte is at offset 2000 is text and an empty file is      *)
(* text.                                                                    *)
C3_BinaryIffZeroInPrefix ==
    (probe.called /\ FullyReadable(ProbeFile)) =>
        /\ ~probe.err
        /\ probe.bin <=> ZeroInFirstKilobyte(ProbeFile.content)
        /\ ProbeFile.content.zeros = {2000} => ~probe.bin
        /\ ProbeFile.content.len = 0 => ~probe.bin

(* The detector has answered "text" for a readable file whose only zero     *)
(* byte is at offset 2000.                                                  *)
C3_Witness ==
    /\ probe.called
    /\ FullyReadable(ProbeFile)
    /\ ProbeFile.content.zeros = {2000}
    /\ ~probe.bin /\ ~probe.err

(* C4: the tag of every block is the one the precedence gives its file     *)
(* name: extension entry of the merged map, else file-name entry, else      *)
(* "text"; Dockerfile is tagged dockerfile and notes.xyz is tagged text.    *)
C4_LanguagePrecedence ==
    \A k \in DOMAIN records :
        LET name == BaseName(RecordPath(records[k]))
        IN  /\ records[k].lang = TagOf(name)
            /\ name = <<"D", "o", "c", "k", "e", "r", "f", "i", "l", "e">>
                 => records[k].lang = "dockerfile"
            /\ name = <<"n", "o", "t", "e", "s", ".", "x", "y", "z">>
                 => records[k].lang = "text"

(* Blocks for Dockerfile, for notes.xyz and for a file tagged by its        *)
(* extension have been written.                                             *)
C4_Witness ==
    /\ \E k \in DOMAIN records : records[k].lang = "dockerfile"
    /\ \E k \in DOMAIN records :
           /\ BaseName(RecordPath(records[k])) = <<"n", "o", "t", "e", "s", ".", "x", "y", "z">>
           /\ records[k].lang = "text"
    /\ \E k \in DOMAIN records : records[k].lang = "go"

(* C5 as written: a run is only ever ended by a directory-enumeration      *)
(* error or by a configuration error (taken widely: any failure before the  *)
(* walk begins).                                                            *)
C5_OnlyEnumerationOrConfiguration ==
    pc = "fatal" => (EnumerationError \/ StartupError)

(* C5, amended: a visited file whose binary check or full read fails is in *)
(* the ledger under "File Read Error", has no block, and does not end the   *)
(* run; a run is ended only by a start-up error, by a directory-            *)
(* enumeration error, or by a failed write of an accepted file's block to   *)
(* the output.                                                              *)
C5_ReadErrorsIsolated ==
    /\ \A i \in DOMAIN visited :
           LET p == visited[i]
           IN  (/\ Lookup(p).kind = "file"
                /\ ~NameIgnored(BaseName(p))
                /\ ReadFails(Lookup(p)))
               => /\ p \in Range(Ledger("File Read Error"))
                  /\ p \notin RecordPaths
                  /\ pc = "fatal" => i < Len(visited)
    /\ pc = "fatal" => (EnumerationError \/ StartupError \/ WriteError)

(* A finished run with files under "File Read Error" for both causes (one  *)
(* that cannot be opened, one whose full read fails) and entries visited    *)
(* after them.                                                              *)
C5_Witness ==
    /\ pc = "done"
    /\ << <<"s", "e", "c", "r", "e", "t", ".", "t", "x", "t">> >> \in Range(Ledger("File Read Error"))
    /\ << <<"d", "a", "m", "a", "g", "e", "d", ".", "m", "d">> >> \in Range(Ledger("File Read Error"))
    /\ Len(records) > 2

(* C6 as written: after a directory-enumeration failure no success message *)
(* and no ledger report has been printed, and no block of the run is in     *)
(* the output file.                                                         *)
C6_NothingSalvaged ==
    EnumerationError =>
        /\ ~console.success
        /\ ~console.report
        /\ Delivered = {}

C8_Idempotent ==
    (/\ prev.valid
     /\ pc \in {"done", "fatal"}
     /\ prev.finalProjectType = finalProjectType
     /\ prev.ignoreDirs = ignoreDirs
     /\ prev.ignoreExts = ignoreExts)
    => (records = prev.records /\ pc = prev.pc /\ fatalMsg = prev.fatalMsg)

(* A second run has finished with several blocks, the output file's own     *)
(* among them.                                                              *)
C8_Witness ==
    /\ prev.valid
    /\ pc = "done"
    /\ Len(records) >= 3
    /\ records = prev.records
    /\ args.output \in RecordPaths

(* C9 as written: the ignore sets of a run are the preset's, unless        *)
(* -ignore-dirs (-ignore-exts) is given, and then the run goes on with the  *)
(* given list in place of the preset's directory (extension) set.           *)
C9_OverridesReplacePreset ==
    /\ (args.ignoreDirs.given \/ args.ignoreExts.given)
         => fatalMsg # "flag provided but not defined"
    /\ pc \in {"create", "root", "walk", "done"} =>
         /\ ignoreDirs = IF args.ignoreDirs.given THEN Range(args.ignoreDirs.items)
                         ELSE Range(projectConfigs[finalProjectType].IgnoreDirs)
         /\ ignoreExts = IF args.ignoreExts.given THEN Range(args.ignoreExts.items)
                         ELSE Range(projectConfigs[finalProjectType].IgnoreExts)

(* The output path lies in the source tree and no ignore rule of the run   *)
(* matches it or a directory on the way to it.                              *)
OutputInWalk ==
    /\ Beneath(args.src, args.output)
    /\ ~NameIgnored(BaseName(args.output))
    /\ \A n \in Len(args.src)..(Len(args.output) - 1) :
           BaseName(SubSeq(args.output, 1, n)) \notin ignoreDirs

(* The output file exists, empty, when the walk starts; a finished run     *)
(* whose output lies in the walk has visited it and bundled or skipped it   *)
(* as AcceptedFile says.                                                    *)
C10_OutputVisited ==
    /\ pc \in {"root", "walk", "done"} => outFile.exists
    /\ pc = "root" => outFile.len = 0
    /\ (pc = "done" /\ OutputInWalk) =>
           /\ args.output \in Range(visited)
           /\ args.output \in opened
           /\ args.output \in RecordPaths <=> AcceptedFile(args.output)

(* A step that writes the output file's own block writes, as its content,  *)
(* exactly the bytes the file held before the step.                         *)
C10_BlockHoldsFlushedBytes ==
    (/\ Len(records') = Len(records) + 1
     /\ args.src \o records'[Len(records')].relativePath = args.output)
    => /\ records'[Len(records')].content =
            [data |-> "bundle", len |-> outFile.len,
             zeros |-> {z \in stream.zeros : z < outFile.len}]
       /\ outFile.len + writer.n = stream.len

(* C10: the output file is created before the walk and is walked like any  *)
(* other file, and the block written for it holds exactly the bytes that    *)
(* had reached the file when it was read, none of the buffered ones.        *)
C10_OutputFileInItsOwnBundle ==
    []C10_OutputVisited /\ [][C10_BlockHoldsFlushedBytes]_vars

(* The output file's block has been written with 4096 bytes of content     *)
(* while more than that had been handed to the writer.                      *)
C10_Witness ==
    \E k \in DOMAIN records :
        /\ RecordPath(records[k]) = args.output
        /\ records[k].content.len = 4096
        /\ BlockEnd(k - 1) > 4096

=============================================================================
